---------------------------- MODULE Spec2Model ----------------------------
(***************************************************************************)
(* CPP-Calculator: the streaming Lexer, the recursive-descent parser and   *)
(* the two evaluators of the repository.                                   *)
(*                                                                         *)
(*  - variant "scientific": src/src/calculator.cpp (ScientificValue AST,   *)
(*    operateOnLeft parses an operand after '*' and '/').                  *)
(*  - variant "fraction": src/unnamed/part_003 (Fraction AST, operateOnLeft*)
(*    parses a term after every operator).                                 *)
(*                                                                         *)
(* Both variants share the Lexer text (calculator.cpp 125-238 is           *)
(* part_003 306-419 verbatim).                                             *)
(*                                                                         *)
(* An expression is a sequence of one-character strings.  A C++ exception  *)
(* is the field "error" of the value a function returns: "" means that     *)
(* nothing was thrown, and every caller returns at once when it is set.    *)
(* A double is an exact rational [n, d, neg] in lowest terms; the decimal  *)
(* rounding of makeScientific is computed, the binary rounding of the      *)
(* hardware is not.                                                        *)
(***************************************************************************)
EXTENDS Integers, Sequences, FiniteSets, TLC

\* ------------------------------------------------------------------ bounds
\* Longest input over the full alphabet.
MaxLen == 4
\* Longest input over digits and operators only.
MaxArithLen == 5
\* Most calls of calculate on one Calculator.
MaxCalls == 3
\* calc::MAX_DIGITS (12 in src/src/calculator.h:18), scaled to fit the
\* 32-bit integers of the model checker.
calc_MAX_DIGITS == 3
\* Calculator::MAX_DIGITS (15 in src/unnamed/part_003:31), scaled likewise.
MAX_DIGITS == 3

MAX_MAGNITUDE == 300

Variants == {"scientific", "fraction"}

Digits == {"0", "1", "2", "3", "4", "5", "6", "7", "8", "9"}

\* The characters inputs are drawn from ("x" stands for any character the
\* Lexer does not know).
Alphabet == {"0", "2", "+", "-", "*", "/", "(", ")", " ", "x"}
ArithAlphabet == {"2", "3", "+", "-", "*", "/"}

Strings(A, n) == UNION {[1..k -> A] : k \in 0..n}

\* ----------------------------------------------------------------- helpers
isDigit(c) == c \in Digits

isOperator(c) == c \in {"+", "-", "*", "/"}

DigitValue(c) ==
    CASE c = "0" -> 0 [] c = "1" -> 1 [] c = "2" -> 2 [] c = "3" -> 3
      [] c = "4" -> 4 [] c = "5" -> 5 [] c = "6" -> 6 [] c = "7" -> 7
      [] c = "8" -> 8 [] c = "9" -> 9

RECURSIVE GCD(_, _)
GCD(a, b) == IF b = 0 THEN a ELSE GCD(b, a % b)

RECURSIVE Pow10(_)
Pow10(k) == IF k = 0 THEN 1 ELSE 10 * Pow10(k - 1)

Abs(x) == IF x < 0 THEN -x ELSE x

\* ------------------------------------------------------------------- Lexer
SENTINEL_CHAR == " "

\* throw std::invalid_argument(msg) out of the Lexer
LexThrow(lex, msg) == [lex EXCEPT !.error = msg]

\* The constructor's loop without its case ' ': a space is like any character
\* the Lexer does not know.
LexerScan_noSpaceCase(e, i) ==
    LET fresh == [idx |-> i, numOpenPars |-> 0, isDelayed |-> FALSE,
                  current |-> " ", last |-> " ", delayed |-> " ", error |-> "",
                  operandAt |-> {}]
    IN  IF i >= Len(e) THEN LexThrow(fresh, "Expression is empty")
        ELSE LET c == e[i + 1] IN
             CASE c \in {"*", "/"} -> LexThrow(fresh, "Invalid unary * or / found")
               [] c = ")" ->
                    LexThrow(fresh, "Closed parenthesis with no open match found")
               [] c = "(" -> [fresh EXCEPT !.numOpenPars = 1, !.current = c]
               [] isDigit(c) \/ c \in {"+", "-"} -> [fresh EXCEPT !.current = c]
               [] OTHER -> LexThrow(fresh, "Invalid character found")

\* The constructor's loop from index i: point the Lexer to the first token.
RECURSIVE LexerScan(_, _)
LexerScan(e, i) ==
    LET fresh == [idx |-> i, numOpenPars |-> 0, isDelayed |-> FALSE,
                  current |-> SENTINEL_CHAR, last |-> SENTINEL_CHAR,
                  delayed |-> SENTINEL_CHAR, error |-> "",
                  operandAt |-> {}]
    IN  IF i >= Len(e) THEN LexThrow(fresh, "Expression is empty")
        ELSE LET c == e[i + 1] IN
             CASE c = " " -> LexerScan(e, i + 1)
               [] c \in {"*", "/"} -> LexThrow(fresh, "Invalid unary * or / found")
               [] c = ")" ->
                    LexThrow(fresh, "Closed parenthesis with no open match found")
               [] c = "(" -> [fresh EXCEPT !.numOpenPars = 1, !.current = c]
               [] isDigit(c) \/ c \in {"+", "-"} -> [fresh EXCEPT !.current = c]
               [] OTHER -> LexThrow(fresh, "Invalid character found")

Lexer(e) == LexerScan(e, 0)

\* SkipSpaces that stops at a space.
SkipSpaces_none(e, i) == i

\* do ++idx; while (idx < expression.length() && expression[idx] == ' ');
RECURSIVE SkipSpaces(_, _)
SkipSpaces(e, i) ==
    IF i < Len(e) /\ e[i + 1] = " " THEN SkipSpaces(e, i + 1) ELSE i

\* case '0'..'9' of operator++: a digit right after ')' is delayed behind '*'
DelayDigit(last) == last = ")"

\* case '(' of operator++: '(' right after ')' or a digit is delayed behind '*'
DelayOpenPar(last) == last = ")" \/ isDigit(last)

\* case '*', '/' of operator++: "" or the message thrown
StarSlashError(last) ==
    IF last = "(" THEN "Invalid unary * or / found"
    ELSE IF isOperator(last) THEN "Invalid adjacent operators found"
    ELSE ""

\* case ')' of operator++: "" or the message thrown
CloseParError(numOpenPars, last) ==
    IF numOpenPars = 0 THEN "Closed parenthesis with no open match found"
    ELSE IF isOperator(last) THEN "Leading operator found"
    ELSE IF last = "(" THEN "Empty parentheses found"
    ELSE ""

\* the end-of-input branch of operator++: "" or the message thrown
EndOfInputError(numOpenPars, last) ==
    IF numOpenPars # 0 THEN "Unmatched open parenthesis found"
    ELSE IF isOperator(last) THEN "Leading operator found"
    ELSE ""

\* What operator++ does with a pending delayed token before it advances.
TakeDelayed(lex) ==
    IF lex.isDelayed
    THEN [lex EXCEPT !.isDelayed = FALSE, !.current = lex.delayed]
    ELSE lex

\* operator++ at the character c = expression[idx]: the switch.
LexerSwitch(lex, c) ==
    CASE isDigit(c) ->
           IF DelayDigit(lex.last)
           THEN [lex EXCEPT !.isDelayed = TRUE, !.delayed = c, !.current = "*"]
           ELSE [lex EXCEPT !.current = c]
      [] c \in {"+", "-"} -> [lex EXCEPT !.current = c]
      [] c \in {"*", "/"} ->
           [lex EXCEPT !.current = c, !.error = StarSlashError(lex.last)]
      [] c = "(" ->
           IF DelayOpenPar(lex.last)
           THEN [lex EXCEPT !.isDelayed = TRUE, !.delayed = c, !.current = "*",
                            !.numOpenPars = @ + 1]
           ELSE [lex EXCEPT !.current = c, !.numOpenPars = @ + 1]
      [] c = ")" ->
           IF CloseParError(lex.numOpenPars, lex.last) # ""
           THEN [lex EXCEPT !.current = c,
                            !.error = CloseParError(lex.numOpenPars, lex.last)]
           ELSE [lex EXCEPT !.current = c, !.numOpenPars = @ - 1]
      [] OTHER -> [lex EXCEPT !.current = c, !.error = "Invalid character found"]

\* operator++ once idx has advanced and last = current is set.
LexerAt(e, lex) ==
    IF lex.idx >= Len(e)
    THEN IF EndOfInputError(lex.numOpenPars, lex.last) # ""
         THEN LexThrow(lex, EndOfInputError(lex.numOpenPars, lex.last))
         ELSE [lex EXCEPT !.current = ")"]
    ELSE LexerSwitch(lex, e[lex.idx + 1])

\* operator++ without its do ++idx loop: the position stays.
Advance_stay(e, lex) == [lex EXCEPT !.last = lex.current]

\* do ++idx; while (...); last = current;
Advance(e, lex) ==
    [lex EXCEPT !.idx = SkipSpaces(e, lex.idx + 1), !.last = lex.current]

\* Lexer::operator++
LexerNext(e, lex) == LexerAt(e, Advance(e, TakeDelayed(lex)))

\* ------------------------------------------------------ double arithmetic
\* A double: the rational n/d in lowest terms, negative when neg (neg with
\* n = 0 is the double -0.0).
DMake(n, d, neg) ==
    IF n = 0 THEN [n |-> 0, d |-> 1, neg |-> neg]
    ELSE LET g == GCD(n, d) IN [n |-> n \div g, d |-> d \div g, neg |-> neg]

DZero == [n |-> 0, d |-> 1, neg |-> FALSE]

DFromInt(k) == [n |-> Abs(k), d |-> 1, neg |-> k < 0]

DIsZero(x) == x.n = 0

\* operator== on doubles: -0.0 == 0.0
DEq(x, y) == (x.n = 0 /\ y.n = 0) \/ x = y

DNeg(x) == [x EXCEPT !.neg = ~x.neg]

DMul(x, y) ==
    LET g1 == GCD(x.n, y.d)
        g2 == GCD(y.n, x.d)
    IN  IF x.n = 0 \/ y.n = 0 THEN [n |-> 0, d |-> 1, neg |-> x.neg # y.neg]
        ELSE [n |-> (x.n \div g1) * (y.n \div g2),
              d |-> (x.d \div g2) * (y.d \div g1),
              neg |-> x.neg # y.neg]

\* x / y for y # 0
DDiv(x, y) == DMul(x, [n |-> y.d, d |-> y.n, neg |-> y.neg])

DAdd(x, y) ==
    LET g  == GCD(x.d, y.d)
        l  == (x.d \div g) * y.d
        sx == (IF x.neg THEN -x.n ELSE x.n) * (l \div x.d)
        sy == (IF y.neg THEN -y.n ELSE y.n) * (l \div y.d)
        s  == sx + sy
    IN  DMake(Abs(s), l, s < 0 \/ (s = 0 /\ x.neg /\ y.neg))

DSub(x, y) == DAdd(x, DNeg(y))

\* std::round: to the nearest integer, halves away from zero
DRound(x) == [n |-> (2 * x.n + x.d) \div (2 * x.d), d |-> 1, neg |-> x.neg]

\* std::pow(10, k)
DPow10(k) ==
    IF k >= 0 THEN [n |-> Pow10(k), d |-> 1, neg |-> FALSE]
    ELSE [n |-> 1, d |-> Pow10(-k), neg |-> FALSE]

\* std::floor(std::log10(n/d)) for n, d > 0: n < d is compared with d / 10
\* rounded up, n >= 10 * d with n / 10 rounded down, so no product is formed.
RECURSIVE FloorLog10(_, _)
FloorLog10(n, d) ==
    IF n < d THEN FloorLog10(n, ((d - 1) \div 10) + 1) - 1
    ELSE IF n \div 10 >= d THEN FloorLog10(n \div 10, d) + 1
    ELSE 0

\* ------------------------------------------- utilities of calculator.cpp
getScientificMagnitude(value) ==
    IF DIsZero(value) THEN 0 ELSE FloorLog10(value.n, value.d)

calc_overflowErrorMessage == "Value limit exceeded"

calc_isBounded(value) == Abs(getScientificMagnitude(value)) <= MAX_MAGNITUDE

calc_isProductBounded(magnitude1, magnitude2) ==
    Abs(magnitude1 + magnitude2) <= MAX_MAGNITUDE

\* makeScientific(value, lastDigit): value rounded to lastDigit significant
\* decimal digits, as mantissa and magnitude
makeScientific(value, lastDigit) ==
    IF DIsZero(value) THEN [value |-> DZero, magnitude |-> 0]
    ELSE LET magnitude == getScientificMagnitude(value)
             rounded   == lastDigit - 1 - magnitude
             exponent  == DPow10(rounded)
             v1 == DDiv(DRound(DMul(value, exponent)), exponent)
             v2 == DDiv(v1, DPow10(magnitude))
         IN  [value |-> v2, magnitude |-> magnitude]

\* makeScientific(value) with the default lastDigit = MAX_DIGITS + 1
makeScientificDefault(value) == makeScientific(value, calc_MAX_DIGITS + 1)

\* ScientificValue::rawValue
rawValue(sv) == DMul(sv.value, DPow10(sv.magnitude))

\* --------------------------------------------- utilities of part_003
overflowErrorMessage == "Max number of digits exceeded"

MAX_NUM == Pow10(MAX_DIGITS) - 1

\* The number of values of ull_t (unsigned long long, 2^64 in the source),
\* scaled with MAX_DIGITS: as in the source it lies above every value the
\* checks admit (10 * MAX_NUM + 9 and 2 * MAX_NUM) and below the product of
\* two numbers of MAX_DIGITS digits.
ULL_MODULUS == 2 * Pow10(MAX_DIGITS + 1)

\* An ull_t holding the mathematical value x >= 0: unsigned arithmetic wraps.
ull(x) == x % ULL_MODULUS

\* isBounded admitting one more digit than MAX_DIGITS.
isBounded_oneMoreDigit(x) == x <= 10 * MAX_NUM + 9

isBounded(x) == x <= MAX_NUM

RECURSIVE DigitCount(_)
DigitCount(x) == IF x = 0 THEN 0 ELSE 1 + DigitCount(x \div 10)

\* isProductBounded that admits every product.
isProductBounded_always(copy1, copy2) == TRUE

\* isProductBounded admitting one digit more than MAX_DIGITS.
isProductBounded_oneMoreDigit(copy1, copy2) ==
    IF copy1 = 0 \/ copy2 = 0 THEN TRUE
    ELSE DigitCount(copy1) + DigitCount(copy2) <= MAX_DIGITS + 1

isProductBounded(copy1, copy2) ==
    IF copy1 = 0 \/ copy2 = 0 THEN TRUE
    ELSE DigitCount(copy1) + DigitCount(copy2) <= MAX_DIGITS

\* ------------------------------------------------------------------ Parser
\* A parser function returns [lex, node]: the Lexer as it leaves it and the
\* tree it built.  A thrown exception is lex.error and the node is NullNode.
NullNode == [type |-> "null"]

Thrown(lex) == lex.error # ""

ParseThrow(lex, msg) == [lex |-> [lex EXCEPT !.error = msg], node |-> NullNode]

\* std::make_unique<ScientificValue>( makeScientific(operand) )
ScientificValueNode(sv) ==
    [type |-> "ScientificValue", value |-> sv.value, magnitude |-> sv.magnitude]

\* std::make_unique<Fraction>(operand, 1, isNegative)
FractionNode(n, d, neg) ==
    [type |-> "Fraction", numerator |-> n, denominator |-> d, isNegative |-> neg]

NegationNode(o) == [type |-> "Negation", operand |-> o]

\* The node operateOnLeft makes of op, left and right.
BinaryNode(v, op, left, right) ==
    IF v = "scientific"
    THEN IF op \in {"+", "-"}
         THEN [type |-> "AddOrSubtract", left |-> left, right |-> right,
               isSub |-> (op = "-")]
         ELSE [type |-> "MultiplyOrDivide", left |-> left, right |-> right,
               isDiv |-> (op = "/")]
    ELSE [type |-> CASE op = "+" -> "Addition" [] op = "-" -> "Subtraction"
                     [] op = "*" -> "Product"  [] op = "/" -> "Quotient",
          left |-> left, right |-> right]

\* operateOnLeft with parseOperand in all four cases of its switch.
RightLevel_operandOnly(v, op) == "operand"

\* Which grammar level operateOnLeft parses for the right operand of op.
RightLevel(v, op) ==
    IF v = "scientific" /\ op \in {"*", "/"} THEN "operand" ELSE "term"

\* The sign run with isNegative = true in place of isNegative = !isNegative.
RECURSIVE SignRun_noFlip(_, _, _)
SignRun_noFlip(e, lex, isNegative) ==
    IF Thrown(lex) THEN [lex |-> lex, isNegative |-> isNegative]
    ELSE IF lex.current = "-" THEN SignRun_noFlip(e, LexerNext(e, lex), TRUE)
    ELSE IF lex.current = "+" THEN SignRun_noFlip(e, LexerNext(e, lex), isNegative)
    ELSE [lex |-> lex, isNegative |-> isNegative]

\* The sign run of parseOperand: while (true) { '-' flips, '+' skips, ++lex }
RECURSIVE SignRun(_, _, _)
SignRun(e, lex, isNegative) ==
    IF Thrown(lex) THEN [lex |-> lex, isNegative |-> isNegative]
    ELSE IF lex.current = "-" THEN SignRun(e, LexerNext(e, lex), ~isNegative)
    ELSE IF lex.current = "+" THEN SignRun(e, LexerNext(e, lex), isNegative)
    ELSE [lex |-> lex, isNegative |-> isNegative]

\* The digit loop of parseOperand in calculator.cpp (operand is a double).
RECURSIVE DigitRunScientific(_, _, _)
DigitRunScientific(e, lex, operand) ==
    IF ~Thrown(lex) /\ isDigit(lex.current)
    THEN DigitRunScientific(e, LexerNext(e, lex),
                            operand * 10 + DigitValue(lex.current))
    ELSE [lex |-> lex, operand |-> operand]

\* The digit loop of parseOperand in part_003 (operand is checked per digit).
RECURSIVE DigitRunFraction(_, _, _)
DigitRunFraction(e, lex, operand) ==
    IF ~Thrown(lex) /\ isDigit(lex.current)
    THEN LET next == ull(ull(operand * 10) + DigitValue(lex.current)) IN
         IF ~isBounded(next)
         THEN [lex |-> [lex EXCEPT !.error = overflowErrorMessage],
               operand |-> next]
         ELSE DigitRunFraction(e, LexerNext(e, lex), next)
    ELSE [lex |-> lex, operand |-> operand]

\* The end of the literal branch in calculator.cpp: the overflow check on
\* the double and the ScientificValue node.
ScientificLiteral(r, isNegative) ==
    IF Thrown(r.lex) THEN [lex |-> r.lex, node |-> NullNode]
    ELSE IF ~calc_isBounded(DFromInt(r.operand))
         THEN ParseThrow(r.lex, calc_overflowErrorMessage)
    ELSE [lex |-> r.lex,
          node |-> ScientificValueNode(makeScientificDefault(
                       DFromInt(IF isNegative THEN -r.operand ELSE r.operand)))]

\* The end of the literal branch in part_003: the Fraction node.
FractionLiteral(r, isNegative) ==
    IF Thrown(r.lex) THEN [lex |-> r.lex, node |-> NullNode]
    ELSE [lex |-> r.lex, node |-> FractionNode(r.operand, 1, isNegative)]

\* The literal branch of parseOperand.
LiteralOperand(v, e, lex, isNegative) ==
    IF v = "scientific"
    THEN ScientificLiteral(DigitRunScientific(e, lex, 0), isNegative)
    ELSE FractionLiteral(DigitRunFraction(e, lex, 0), isNegative)

\* throw std::logic_error(...): the default of operateOnLeft's switch
UnexpectedOperator == "Unexpected operator in operateOnLeft method"

RECURSIVE parseExpression(_, _, _), parseTerm(_, _, _), parseOperand(_, _, _),
          operateOnLeft(_, _, _, _), ExpressionLoop(_, _, _), TermLoop(_, _, _)

\* operateOnLeft from the switch on: the node made of left, op and the parsed
\* right operand r.
OperateSwitch(v, op, left, r) ==
    IF Thrown(r.lex) THEN [lex |-> r.lex, node |-> NullNode]
    ELSE IF ~isOperator(op)
         THEN ParseThrow(r.lex, UnexpectedOperator)
    ELSE [lex |-> r.lex, node |-> BinaryNode(v, op, left, r.node)]

\* operateOnLeft after its ++lex, which left the Lexer as l1.
OperateRight(v, e, left, op, l1) ==
    IF Thrown(l1) THEN [lex |-> l1, node |-> NullNode]
    ELSE IF ~isOperator(op) /\ v = "scientific"
         THEN ParseThrow(l1, UnexpectedOperator)
    ELSE OperateSwitch(v, op, left,
             IF RightLevel(v, op) = "operand" THEN parseOperand(v, e, l1)
             ELSE parseTerm(v, e, l1))

\* Calculator::operateOnLeft
operateOnLeft(v, e, left, lex) ==
    OperateRight(v, e, left, lex.current, LexerNext(e, lex))

\* parseExpression with if in place of while: one '+' or '-' at most.
ExpressionLoop_once(v, e, r) ==
    IF ~Thrown(r.lex) /\ r.lex.current \in {"+", "-"}
    THEN operateOnLeft(v, e, r.node, r.lex)
    ELSE r

\* while (*lex == '+' || *lex == '-') operateOnLeft(left, lex);
ExpressionLoop(v, e, r) ==
    IF ~Thrown(r.lex) /\ r.lex.current \in {"+", "-"}
    THEN ExpressionLoop(v, e, operateOnLeft(v, e, r.node, r.lex))
    ELSE r

\* Calculator::parseExpression
parseExpression(v, e, lex) == ExpressionLoop(v, e, parseTerm(v, e, lex))

\* while (*lex == '*' || *lex == '/') operateOnLeft(left, lex);
TermLoop(v, e, r) ==
    IF ~Thrown(r.lex) /\ r.lex.current \in {"*", "/"}
    THEN TermLoop(v, e, operateOnLeft(v, e, r.node, r.lex))
    ELSE r

\* Calculator::parseTerm
parseTerm(v, e, lex) == TermLoop(v, e, parseOperand(v, e, lex))

\* The parenthesised branch after its second ++lex, which left the Lexer as
\* l2: the sub-tree, wrapped in a Negation when the sign run was negative.
ParenReturn(l2, node, isNegative) ==
    IF Thrown(l2) THEN [lex |-> l2, node |-> NullNode]
    ELSE [lex |-> l2,
          node |-> IF isNegative THEN NegationNode(node) ELSE node]

\* The parenthesised branch after parseExpression returned r.
ParenClose(e, r, isNegative) ==
    IF Thrown(r.lex) THEN [lex |-> r.lex, node |-> NullNode]
    ELSE ParenReturn(LexerNext(e, r.lex), r.node, isNegative)

\* The parenthesised branch after its first ++lex, which left the Lexer as l1.
ParenOpen(v, e, l1, isNegative) ==
    IF Thrown(l1) THEN [lex |-> l1, node |-> NullNode]
    ELSE ParenClose(e, parseExpression(v, e, l1), isNegative)

\* The Lexer with its current token recorded in operandAt, the history of
\* the tokens at which parseOperand stood after its sign run.
AtOperand(lex) == [lex EXCEPT !.operandAt = @ \cup {lex.current}]

\* parseOperand after the sign run s = [lex, isNegative].
OperandAfterSigns(v, e, s) ==
    IF Thrown(s.lex) THEN [lex |-> s.lex, node |-> NullNode]
    ELSE IF s.lex.current = "("
         THEN ParenOpen(v, e, LexerNext(e, AtOperand(s.lex)), s.isNegative)
    ELSE LiteralOperand(v, e, AtOperand(s.lex), s.isNegative)

\* Calculator::parseOperand
parseOperand(v, e, lex) == OperandAfterSigns(v, e, SignRun(e, lex, FALSE))

\* parse after the Lexer's constructor.
ParseFrom(v, e, lex) ==
    IF Thrown(lex) THEN [lex |-> lex, node |-> NullNode]
    ELSE parseExpression(v, e, lex)

\* Calculator::parse
parse(v, e) == ParseFrom(v, e, Lexer(e))

\* ------------------------------------------- evaluate of calculator.cpp
\* evaluate returns [val, error]: val is a ScientificValue [value, magnitude].
SVNone == [value |-> DZero, magnitude |-> 0]

SVOk(sv) == [val |-> sv, error |-> ""]

SVThrow(msg) == [val |-> SVNone, error |-> msg]

\* AddOrSubtract::evaluate on the operands' values
AddOrSubtractValue(left_val, right_val, isSub) ==
    LET raw_left  == rawValue(left_val)
        raw_right == rawValue(right_val)
        raw_sum   == IF isSub THEN DSub(raw_left, raw_right)
                     ELSE DAdd(raw_left, raw_right)
    IN  IF ~calc_isBounded(raw_sum) THEN SVThrow(calc_overflowErrorMessage)
        ELSE SVOk(makeScientificDefault(raw_sum))

\* MultiplyOrDivide::evaluate on the operands' values
MultiplyOrDivideValue(left_val, right_val, isDiv) ==
    IF isDiv
    THEN IF DEq(right_val.value, DZero) THEN SVThrow("Division by zero detected")
         ELSE IF ~calc_isProductBounded(left_val.magnitude, -right_val.magnitude)
              THEN SVThrow(calc_overflowErrorMessage)
         ELSE SVOk(makeScientificDefault(
                  DDiv(rawValue(left_val), rawValue(right_val))))
    ELSE IF ~calc_isProductBounded(left_val.magnitude, right_val.magnitude)
         THEN SVThrow(calc_overflowErrorMessage)
         ELSE SVOk(makeScientificDefault(
                  DMul(rawValue(left_val), rawValue(right_val))))

\* ASTNode::evaluate of calculator.cpp, post-order, left before right
RECURSIVE evaluateScientific(_)
evaluateScientific(node) ==
    CASE node.type = "ScientificValue" ->
           SVOk([value |-> node.value, magnitude |-> node.magnitude])
      [] node.type = "Negation" ->
           LET o == evaluateScientific(node.operand) IN
           IF o.error # "" THEN o
           ELSE SVOk([o.val EXCEPT !.value = DNeg(@)])
      [] node.type \in {"AddOrSubtract", "MultiplyOrDivide"} ->
           LET l == evaluateScientific(node.left) IN
           IF l.error # "" THEN l
           ELSE LET r == evaluateScientific(node.right) IN
                IF r.error # "" THEN r
                ELSE IF node.type = "AddOrSubtract"
                     THEN AddOrSubtractValue(l.val, r.val, node.isSub)
                     ELSE MultiplyOrDivideValue(l.val, r.val, node.isDiv)

\* ---------------------------------------------- evaluate of part_003
\* evaluate returns [val, error]: val is a Fraction
\* [numerator, denominator, isNegative].
Fraction(n, d, neg) == [numerator |-> n, denominator |-> d, isNegative |-> neg]

FrOk(f) == [val |-> f, error |-> ""]

FrThrow(msg) == [val |-> Fraction(0, 1, FALSE), error |-> msg]

\* reduce that leaves the common divisor in place.
reduce_noDivide(f) ==
    IF f.numerator = 0 THEN Fraction(0, 1, FALSE) ELSE f

\* reduce that clears the sign of every Fraction, not only of zero.
reduce_dropSign(f) ==
    IF f.numerator = 0 THEN Fraction(0, 1, FALSE)
    ELSE LET gcd == GCD(f.numerator, f.denominator) IN
         Fraction(f.numerator \div gcd, f.denominator \div gcd, FALSE)

\* Fraction::reduce
reduce(f) ==
    IF f.numerator = 0 THEN Fraction(0, 1, FALSE)
    ELSE LET gcd == GCD(f.numerator, f.denominator) IN
         Fraction(f.numerator \div gcd, f.denominator \div gcd, f.isNegative)

\* Fraction::findCommons: [lcm, l_num_scaled, r_num_scaled, error]
findCommons(this, other) ==
    LET l_num == this.numerator
        l_den == this.denominator
        r_num == other.numerator
        r_den == other.denominator
        gcd == GCD(l_den, r_den)
        k == l_den \div gcd
        lcm == ull(k * r_den)
        none == [lcm |-> 0, l_num_scaled |-> 0, r_num_scaled |-> 0,
                 error |-> overflowErrorMessage]
    IN  IF ~isProductBounded(k, r_den) THEN none
        ELSE IF ~isProductBounded(l_num, lcm \div l_den) THEN none
        ELSE IF ~isProductBounded(r_num, lcm \div r_den) THEN none
        ELSE [lcm |-> lcm,
              l_num_scaled |-> ull(l_num * lcm) \div l_den,
              r_num_scaled |-> ull(r_num * lcm) \div r_den,
              error |-> ""]

RECURSIVE AdditionValue(_, _), SubtractionValue(_, _)

\* Addition::evaluate on the operands' values
AdditionValue(node_left, node_right) ==
    IF ~node_left.isNegative /\ node_right.isNegative
    THEN SubtractionValue(node_left, [node_right EXCEPT !.isNegative = FALSE])
    ELSE IF node_left.isNegative /\ ~node_right.isNegative
    THEN SubtractionValue(node_right, [node_left EXCEPT !.isNegative = FALSE])
    ELSE LET isNegative == node_left.isNegative /\ node_right.isNegative
             commons == findCommons(node_left, node_right)
         IN  IF commons.error # "" THEN FrThrow(commons.error)
             ELSE LET numerator == ull(commons.l_num_scaled + commons.r_num_scaled)
                      result == reduce(Fraction(numerator, commons.lcm, isNegative))
                  IN  IF ~isBounded(result.numerator)
                      THEN FrThrow(overflowErrorMessage)
                      ELSE FrOk(result)

\* Subtraction::evaluate on the operands' values
SubtractionValue(node_left, node_right) ==
    IF node_left.isNegative /\ ~node_right.isNegative
    THEN AdditionValue(node_left, [node_right EXCEPT !.isNegative = TRUE])
    ELSE IF ~node_left.isNegative /\ node_right.isNegative
    THEN AdditionValue(node_left, [node_right EXCEPT !.isNegative = FALSE])
    ELSE LET isNegative == node_left.isNegative /\ node_right.isNegative
             commons == findCommons(node_left, node_right)
         IN  IF commons.error # "" THEN FrThrow(commons.error)
             ELSE IF commons.l_num_scaled < commons.r_num_scaled
                  THEN FrOk(reduce(Fraction(
                           commons.r_num_scaled - commons.l_num_scaled,
                           commons.lcm, ~isNegative)))
                  ELSE FrOk(reduce(Fraction(
                           commons.l_num_scaled - commons.r_num_scaled,
                           commons.lcm, isNegative)))

\* Product::evaluate with the sign of its left operand for the result.
ProductValue_leftSign(node_left, node_right) ==
    LET gcd1 == GCD(node_left.numerator, node_right.denominator)
        gcd2 == GCD(node_left.denominator, node_right.numerator)
        ln == node_left.numerator \div gcd1
        ld == node_left.denominator \div gcd2
        rn == node_right.numerator \div gcd2
        rd == node_right.denominator \div gcd1
    IN  IF ~isProductBounded(ln, rn) \/ ~isProductBounded(ld, rd)
        THEN FrThrow(overflowErrorMessage)
        ELSE FrOk(Fraction(ull(ln * rn), ull(ld * rd), node_left.isNegative))

\* Product::evaluate on the operands' values
ProductValue(node_left, node_right) ==
    LET isNegative == node_left.isNegative # node_right.isNegative
        gcd1 == GCD(node_left.numerator, node_right.denominator)
        gcd2 == GCD(node_left.denominator, node_right.numerator)
        ln == node_left.numerator \div gcd1
        ld == node_left.denominator \div gcd2
        rn == node_right.numerator \div gcd2
        rd == node_right.denominator \div gcd1
    IN  IF ~isProductBounded(ln, rn) \/ ~isProductBounded(ld, rd)
        THEN FrThrow(overflowErrorMessage)
        ELSE FrOk(Fraction(ull(ln * rn), ull(ld * rd), isNegative))

\* Quotient::evaluate without its test of the right operand's numerator.
QuotientValue_noZeroCheck(node_left, node_right) ==
    ProductValue(node_left,
        [node_right EXCEPT !.numerator = node_right.denominator,
                           !.denominator = node_right.numerator])

\* Quotient::evaluate on the operands' values
QuotientValue(node_left, node_right) ==
    IF node_right.numerator = 0 THEN FrThrow("Division by zero detected")
    ELSE ProductValue(node_left,
             [node_right EXCEPT !.numerator = node_right.denominator,
                                !.denominator = node_right.numerator])

\* ASTNode::evaluate of part_003, post-order, left before right
RECURSIVE evaluateFraction(_)
evaluateFraction(node) ==
    CASE node.type = "Fraction" ->
           FrOk(Fraction(node.numerator, node.denominator, node.isNegative))
      [] node.type = "Negation" ->
           LET o == evaluateFraction(node.operand) IN
           IF o.error # "" THEN o
           ELSE FrOk([o.val EXCEPT !.isNegative = ~@])
      [] node.type \in {"Addition", "Subtraction", "Product", "Quotient"} ->
           LET l == evaluateFraction(node.left) IN
           IF l.error # "" THEN l
           ELSE LET r == evaluateFraction(node.right) IN
                IF r.error # "" THEN r
                ELSE CASE node.type = "Addition" -> AdditionValue(l.val, r.val)
                       [] node.type = "Subtraction" -> SubtractionValue(l.val, r.val)
                       [] node.type = "Product" -> ProductValue(l.val, r.val)
                       [] node.type = "Quotient" -> QuotientValue(l.val, r.val)

\* Fraction::calculate: the double numerator / denominator, negated if flagged
FractionCalculate(f) == DMake(f.numerator, f.denominator, f.isNegative)

\* -------------------------------------------------------------- calculate
\* Calculator::calculate as a function of the input: [error, answer]; error
\* is the exception that leaves calculate, answer the double it returns.
CalcThrow(msg) == [error |-> msg, answer |-> DZero]

\* calculate after evaluate returned r: the conversion to the answer.
ScientificAnswer(r) ==
    IF r.error # "" THEN CalcThrow(r.error)
    ELSE [error |-> "",
          answer |-> rawValue(makeScientific(rawValue(r.val), calc_MAX_DIGITS))]

FractionAnswer(r) ==
    IF r.error # "" THEN CalcThrow(r.error)
    ELSE [error |-> "", answer |-> FractionCalculate(r.val)]

\* calculate after parse returned ASTree.
CalculateTree(v, ASTree) ==
    IF Thrown(ASTree.lex) THEN CalcThrow(ASTree.lex.error)
    ELSE IF v = "scientific"
         THEN ScientificAnswer(evaluateScientific(ASTree.node))
    ELSE FractionAnswer(evaluateFraction(ASTree.node))

calculate(v, e) == CalculateTree(v, parse(v, e))

\* ------------------------------------------------------------ the program
VARIABLES
    variant,         \* which Calculator is running
    pc,              \* "idle", or how the call of calculate ended
    expression,      \* the argument of the call
    error,           \* the exception that left the call ("" if none)
    answer,          \* the value the call returned
    lastExpression,  \* Calculator::lastExpression
    lastAnswer,      \* Calculator::lastAnswer
    calls,           \* how many calls of calculate the Calculator has seen
    given,           \* a Fraction as constructed, before any reduce()
    object,          \* that Fraction object now
    reduceCalls,     \* how many times reduce() ran on it
    asked,           \* a binary node and its operands' values, as evaluated
    frame,           \* the node whose evaluate() is running on them now
    delegations,     \* how often Addition and Subtraction handed over
    evalPc,          \* "idle", "call", or how evaluate() ended
    result,          \* what evaluate() returned or threw
    copy1,           \* the first argument of isProductBounded
    copy2,           \* its second argument
    called,          \* whether isProductBounded has been called on them
    productBounded,  \* what it returned
    lexer,           \* the Lexer lex of parse, followed step by step
    stack,           \* the call stack of the parser functions
    parsePc,         \* "idle", "parsing", "returned" or "threw"
    increments       \* how many times ++lex has been called

calculatorVars ==
    <<variant, pc, expression, error, answer, lastExpression, lastAnswer, calls>>

fractionVars == <<given, object, reduceCalls>>

evalVars == <<asked, frame, delegations, evalPc, result>>

boundVars == <<copy1, copy2, called, productBounded>>

parseVars == <<lexer, stack, parsePc, increments>>

vars == <<calculatorVars, fractionVars, evalVars, boundVars, parseVars>>

\* The inputs the front end hands to calculate.
TestInputs == {
    \* precedence and associativity
    <<"4", "-", "3", "*", "5">>,
    <<"1", "0", "-", "3", "-", "2">>,
    <<"1", "0", "+", "2", "-", "3">>,
    <<"8", "/", "4", "/", "2">>,
    <<"8", "/", "4", "*", "2">>,
    \* implicit multiplication
    <<"2", "(", "3", "+", "4", ")">>,
    <<"(", "2", ")", "3">>,
    <<"2", "(", "1", "/", "2", ")", "4", "(", "5", "-", "7", ")", "(", "0", "+", "1", ")">>,
    <<"2", "*", "(", "1", "/", "2", ")", "*", "4", "*", "(", "5", "-", "7", ")", "*", "(", "0", "+", "1", ")">>,
    \* sign chains
    <<"-", "-", "-", "-", "-", "5">>,
    <<"5", "-", "-", "-", "-", "-", "-", "-", "-", "3">>,
    <<"3", "-", "-", "-", "5">>,
    <<"3", "*", "-", "5">>,
    \* text after a closed implicit factor
    <<"2", "(", "3", ")", "x">>,
    <<"2", "(", "3", ")", "+", "*", "4">>,
    <<"2", "(", "3", ")", ")">>,
    <<"2", "(", "3", ")", "(">>,
    <<"2", "(", "3", ")", "+">>,
    \* zeros, leading zeros and spaces
    <<"(", "2", ")", "0", "2">>,
    <<"1", "0", "/", "2", "*", "0">>,
    <<"-", "0">>,
    <<"-", "(", "1", "-", "1", ")">>,
    <<"0", "*", "-", "5">>,
    <<"0", "/", "-", "5">>,
    <<"5", "/", "0">>,
    <<"2", "0", "/", "(", "1", "0", "-", "1", "0", ")">>,
    <<"0", "0", "0", "0", "0", "0", "0", "0", "0", "0", "0", "0", "0", "0", "0", "0", "0", "0", "0", "0", "0", "0", "0", "3", "2", "0", "+", "1">>,
    <<"0", "0", "0", "0", "0", "0", "0", "0", "0", "0", "0", "0", "0", "0", "0", "0", "0", "0", "0", "0", "0", "0", "0", "3", "2", "+", "1">>,
    <<"1", " ", "2">>,
    <<"3", "+", "*", "4">>,
    \* products that do not fit the unsigned type
    <<"9", "9", "/", "5", "0", "+", "1", "/", "9">>,
    <<"9", "9", "/", "5", "0", "-", "1", "/", "9">>,
    <<"1", "/", "9", "+", "9", "9", "/", "5", "0">>,
    \* rejected by the Lexer
    <<"*", "3", "+", "5">>,
    <<"4", "*", "/", "6">>,
    <<"5", "+", "+", "*", "3">>,
    <<"8", "+", "/", "-", "2">>,
    <<"3", " ", "+", " ", "*", " ", "4">>,
    <<"4", "+", "5", ")">>,
    <<"7", "+", "(", ")">>,
    <<"(", "7", "+", ")", "6">>,
    <<"(", "4", "+", "5">>,
    <<"3", "+", "5", "-">>,
    <<"4", "/", "4", "*", "4", "*">> }

\* Operands of either kind, and the inputs "A op1 B op2 C" made of them.
Operands == {
    <<"2">>, <<"0">>, <<"1", "0">>,
    <<"(", "3", ")">>, <<"(", "2", "+", "3", ")">>, <<"(", "4", "-", "6", ")">> }

OperandInputs ==
    { a \o <<op1>> \o b \o <<op2>> \o c :
        a \in Operands, b \in Operands, c \in Operands,
        op1 \in {"+", "-", "*", "/"}, op2 \in {"+", "-", "*", "/"} }

\* Literals around the digit limit, alone and followed by more text.
Literals == Strings({"0", "1", "9"}, MAX_DIGITS + 2) \ {<<>>}

LiteralInputs ==
    Literals \cup { l \o <<"x">> : l \in Literals }
             \cup { l \o <<"+", "1">> : l \in Literals }

\* Sums, differences and products of two quotients, and quotients of two
\* quotients of one-digit literals.
RatioParts == {<<"0">>, <<"1">>, <<"9">>, <<"5", "0">>, <<"9", "9">>}

SmallParts == {<<"0">>, <<"1">>, <<"9">>}

RatioInputs ==
    { a \o <<"/">> \o b \o <<op>> \o c \o <<"/">> \o d :
        a \in RatioParts, b \in RatioParts, c \in RatioParts,
        d \in RatioParts, op \in {"+", "-", "*"} }
    \cup { a \o <<"/">> \o b \o <<"/">> \o c \o <<"/">> \o d :
             a \in SmallParts, b \in SmallParts, c \in SmallParts,
             d \in SmallParts }

\* What is typed in a session of several calls: inputs that return and
\* inputs that fail in each way.
SessionInputs == {
    <<"2">>, <<"3", "+", "4">>, <<"-", "5">>,
    <<"2", "+">>, <<"x">>, <<"5", "/", "0">>,
    <<"9", "9", "9", "9", "9">> }

Inputs == Strings(Alphabet, MaxLen) \cup Strings(ArithAlphabet, MaxArithLen)
            \cup OperandInputs \cup LiteralInputs \cup RatioInputs
            \cup SessionInputs \cup TestInputs

\* Calculator's member initialisers: lastExpression = "0", lastAnswer = 0
CalculatorInit ==
    /\ pc = "idle"
    /\ expression = <<>>
    /\ error = ""
    /\ answer = DZero
    /\ lastExpression = <<"0">>
    /\ lastAnswer = DZero
    /\ calls = 0

\* Fraction(n, d, neg) of the canonical zero, never reduced.
FractionInit ==
    /\ given = Fraction(0, 1, FALSE)
    /\ object = given
    /\ reduceCalls = 0

\* No node is being evaluated on its own.
NoFrame ==
    [type |-> "Fraction", left |-> Fraction(0, 1, FALSE),
     right |-> Fraction(0, 1, FALSE)]

EvalIdle ==
    /\ asked = NoFrame
    /\ frame = NoFrame
    /\ delegations = 0
    /\ evalPc = "idle"
    /\ result = FrOk(Fraction(0, 1, FALSE))

\* isProductBounded is not being looked at on its own.
BoundIdle ==
    /\ copy1 = 0
    /\ copy2 = 0
    /\ called = FALSE
    /\ productBounded = FALSE

\* parse is not being followed step by step.
ParseIdle ==
    /\ lexer = Lexer(<<>>)
    /\ stack = <<>>
    /\ parsePc = "idle"
    /\ increments = 0

Init ==
    /\ variant \in Variants
    /\ CalculatorInit
    /\ FractionInit
    /\ EvalIdle
    /\ BoundIdle
    /\ ParseIdle

\* Store with the members reset to their initial values by a failed call.
Store_resetOnFailure(e, r) ==
    /\ expression' = e
    /\ error' = r.error
    /\ answer' = r.answer
    /\ IF r.error = ""
       THEN /\ pc' = "returned"
            /\ lastAnswer' = r.answer
            /\ lastExpression' = e
       ELSE /\ pc' = "threw"
            /\ lastAnswer' = DZero
            /\ lastExpression' = <<"0">>

\* calculate stores r: the members change only when nothing was thrown.
Store(e, r) ==
    /\ expression' = e
    /\ error' = r.error
    /\ answer' = r.answer
    /\ IF r.error = ""
       THEN /\ pc' = "returned"
            /\ lastAnswer' = r.answer
            /\ lastExpression' = e
       ELSE /\ pc' = "threw"
            /\ UNCHANGED <<lastAnswer, lastExpression>>

\* One call calculate(e) of the front end's loop. A session of several
\* calls is followed over SessionInputs only.
Calculate ==
    /\ calls < MaxCalls
    /\ calls > 0 => expression \in SessionInputs
    /\ \E e \in (IF calls = 0 THEN Inputs ELSE SessionInputs) :
           Store(e, calculate(variant, e))
    /\ calls' = calls + 1
    /\ UNCHANGED <<variant, fractionVars, evalVars, boundVars, parseVars>>

Next == Calculate

Spec == Init /\ [][Next]_vars

\* ------------------------------------------------- Fraction::reduce alone
\* The Fractions reduce() is applied to: denominator > 0.
MaxPart == 12

FractionObjects ==
    { Fraction(n, d, neg) : n \in 0..MaxPart, d \in 1..MaxPart, neg \in BOOLEAN }

ReduceInit ==
    /\ variant = "fraction"
    /\ CalculatorInit
    /\ given \in FractionObjects
    /\ object = given
    /\ reduceCalls = 0
    /\ EvalIdle
    /\ BoundIdle
    /\ ParseIdle

\* object.reduce()
Reduce ==
    /\ reduceCalls < MaxCalls
    /\ object' = reduce(object)
    /\ reduceCalls' = reduceCalls + 1
    /\ UNCHANGED <<calculatorVars, given, evalVars, boundVars, parseVars>>

ReduceNext == Reduce

ReduceSpec == ReduceInit /\ [][ReduceNext]_vars

\* ------------------------------------------- evaluate() of one binary node
MaxDelegations == 2

NodeTypes == {"Addition", "Subtraction", "Product", "Quotient"}

\* Numerators and denominators with one, two and MAX_DIGITS = 3 digits.
ValueNumerators == {0, 1, 2, 3, 9, 50, 99, 999}

ValueDenominators == {1, 2, 3, 9, 50, 99, 999}

\* The Fractions a node's operands evaluate to: in lowest terms, zero over 1
\* and of either sign.
OperandValues ==
    { f \in { Fraction(n, d, neg) :
                n \in ValueNumerators, d \in ValueDenominators,
                neg \in BOOLEAN } :
        GCD(f.numerator, f.denominator) = 1 }

EvalInit ==
    /\ variant = "fraction"
    /\ CalculatorInit
    /\ FractionInit
    /\ asked \in [type : NodeTypes, left : OperandValues, right : OperandValues]
    /\ frame = asked
    /\ delegations = 0
    /\ evalPc = "call"
    /\ result = FrOk(Fraction(0, 1, FALSE))
    /\ BoundIdle
    /\ ParseIdle

\* The first two ifs of Addition::evaluate and of Subtraction::evaluate.
Delegates(f) ==
    /\ f.type \in {"Addition", "Subtraction"}
    /\ f.left.isNegative # f.right.isNegative

\* The ifs handing the operands over with their signs as they are.
Delegated_keepSigns(f) ==
    [type |-> IF f.type = "Addition" THEN "Subtraction" ELSE "Addition",
     left |-> f.left, right |-> f.right]

\* The node the ifs construct and the operands they hand to it.
Delegated(f) ==
    IF f.type = "Addition"
    THEN IF ~f.left.isNegative
         THEN [type |-> "Subtraction", left |-> f.left,
               right |-> [f.right EXCEPT !.isNegative = FALSE]]
         ELSE [type |-> "Subtraction", left |-> f.right,
               right |-> [f.left EXCEPT !.isNegative = FALSE]]
    ELSE IF f.left.isNegative
         THEN [type |-> "Addition", left |-> f.left,
               right |-> [f.right EXCEPT !.isNegative = TRUE]]
         ELSE [type |-> "Addition", left |-> f.left,
               right |-> [f.right EXCEPT !.isNegative = FALSE]]

\* evaluate() of a node of the given type on the operands' values l and r.
NodeValue(type, l, r) ==
    CASE type = "Addition" -> AdditionValue(l, r)
      [] type = "Subtraction" -> SubtractionValue(l, r)
      [] type = "Product" -> ProductValue(l, r)
      [] type = "Quotient" -> QuotientValue(l, r)

\* return Subtraction(...).evaluate() / return Addition(...).evaluate()
Delegate ==
    /\ evalPc = "call"
    /\ Delegates(frame)
    /\ delegations < MaxDelegations
    /\ frame' = Delegated(frame)
    /\ delegations' = delegations + 1
    /\ UNCHANGED <<calculatorVars, fractionVars, asked, evalPc, result, boundVars,
                   parseVars>>

\* The arithmetic of the node on same-signed operands, and Product and
\* Quotient: evaluate() returns or throws.
Compute ==
    /\ evalPc = "call"
    /\ ~Delegates(frame)
    /\ result' = NodeValue(frame.type, frame.left, frame.right)
    /\ evalPc' = IF result'.error = "" THEN "returned" ELSE "threw"
    /\ UNCHANGED <<calculatorVars, fractionVars, asked, frame, delegations,
                   boundVars, parseVars>>

EvalNext == Delegate \/ Compute

EvalSpec == EvalInit /\ [][EvalNext]_vars

\* Every evaluate() that was called runs on.
EvalFairSpec == EvalSpec /\ WF_vars(EvalNext)

\* --------------------------------------------- isProductBounded on its own
MaxFactor == 120

BoundInit ==
    /\ variant = "fraction"
    /\ CalculatorInit
    /\ FractionInit
    /\ EvalIdle
    /\ copy1 \in 0..MaxFactor
    /\ copy2 \in 0..MaxFactor
    /\ called = FALSE
    /\ productBounded = FALSE
    /\ ParseIdle

\* isProductBounded(copy1, copy2)
IsProductBounded ==
    /\ ~called
    /\ productBounded' = isProductBounded(copy1, copy2)
    /\ called' = TRUE
    /\ UNCHANGED <<calculatorVars, fractionVars, evalVars, copy1, copy2, parseVars>>

BoundNext == IsProductBounded

BoundSpec == BoundInit /\ [][BoundNext]_vars

\* ------------------------------------------------- parse, step by step
\* The parser functions are followed one step at a time: a loop test, a
\* ++lex, a call and a return are steps.  The trees they build are left out;
\* parse(v, e) above builds them.
MaxParseLen == 4
MaxIncrements == 40

ParseAlphabet == {"2", "-", "*", "(", ")", " "}

ParseInputs == Strings(ParseAlphabet, MaxParseLen) \cup TestInputs

\* A stack frame: the function, the place in it, the operator operateOnLeft
\* read, the operand parseOperand has accumulated, and the Lexer position at
\* which the current iteration of the function's loop began (-1: none yet).
Frame(fn, at) == [fn |-> fn, at |-> at, op |-> " ", operand |-> 0, from |-> -1]

Top == stack[Len(stack)]

Caller == SubSeq(stack, 1, Len(stack) - 1)

\* Lexer lex(expression); return parseExpression(lex);
ParseInit ==
    /\ variant \in Variants
    /\ pc = "idle"
    /\ expression \in ParseInputs
    /\ error = ""
    /\ answer = DZero
    /\ lastExpression = <<"0">>
    /\ lastAnswer = DZero
    /\ calls = 0
    /\ FractionInit
    /\ EvalIdle
    /\ BoundIdle
    /\ lexer = Lexer(expression)
    /\ increments = 0
    /\ IF Thrown(lexer)
       THEN stack = <<>> /\ parsePc = "threw"
       ELSE stack = <<Frame("parseExpression", "enter")>> /\ parsePc = "parsing"

Running(fn, at) ==
    /\ parsePc = "parsing"
    /\ stack # <<>>
    /\ Top.fn = fn
    /\ Top.at = at

\* ++lex from the Lexer l; when it throws, the stack unwinds, and otherwise
\* the stack becomes st.
Increment(l, st) ==
    /\ increments < MaxIncrements
    /\ lexer' = LexerNext(expression, l)
    /\ increments' = increments + 1
    /\ IF Thrown(lexer')
       THEN stack' = <<>> /\ parsePc' = "threw"
       ELSE stack' = st /\ parsePc' = parsePc

\* throw with message msg where no ++lex is involved
Throw(msg) ==
    /\ lexer' = [lexer EXCEPT !.error = msg]
    /\ stack' = <<>>
    /\ parsePc' = "threw"
    /\ UNCHANGED increments

\* return from the function on top of the stack
Return ==
    /\ stack' = Caller
    /\ parsePc' = IF Len(stack) = 1 THEN "returned" ELSE parsePc
    /\ UNCHANGED <<lexer, increments>>

\* the call of callee, the caller going on at place at
Call(at, callee) ==
    /\ stack' = Append([stack EXCEPT ![Len(stack)].at = at],
                       Frame(callee, "enter"))
    /\ UNCHANGED <<lexer, parsePc, increments>>

\* the loop test of parseExpression or parseTerm succeeding
Iterate ==
    /\ stack' = Append([stack EXCEPT ![Len(stack)].from = lexer.idx],
                       Frame("operateOnLeft", "enter"))
    /\ UNCHANGED <<lexer, parsePc, increments>>

\* auto left = parseTerm(lex);  (parseExpression)
ExpressionEnter ==
    /\ Running("parseExpression", "enter")
    /\ Call("loop", "parseTerm")
    /\ UNCHANGED <<calculatorVars, fractionVars, evalVars, boundVars>>

\* while (*lex == '+' || *lex == '-') operateOnLeft(left, lex);
ExpressionIterate ==
    /\ Running("parseExpression", "loop")
    /\ lexer.current \in {"+", "-"}
    /\ Iterate
    /\ UNCHANGED <<calculatorVars, fractionVars, evalVars, boundVars>>

\* return left;  (parseExpression)
ExpressionReturn ==
    /\ Running("parseExpression", "loop")
    /\ lexer.current \notin {"+", "-"}
    /\ Return
    /\ UNCHANGED <<calculatorVars, fractionVars, evalVars, boundVars>>

\* auto left = parseOperand(lex);  (parseTerm)
TermEnter ==
    /\ Running("parseTerm", "enter")
    /\ Call("loop", "parseOperand")
    /\ UNCHANGED <<calculatorVars, fractionVars, evalVars, boundVars>>

\* while (*lex == '*' || *lex == '/') operateOnLeft(left, lex);
TermIterate ==
    /\ Running("parseTerm", "loop")
    /\ lexer.current \in {"*", "/"}
    /\ Iterate
    /\ UNCHANGED <<calculatorVars, fractionVars, evalVars, boundVars>>

\* return left;  (parseTerm)
TermReturn ==
    /\ Running("parseTerm", "loop")
    /\ lexer.current \notin {"*", "/"}
    /\ Return
    /\ UNCHANGED <<calculatorVars, fractionVars, evalVars, boundVars>>

\* char op = *lex; ++lex; and the call that parses the right operand.  In
\* calculator.cpp the switch comes first and its default throws.
Operate ==
    /\ Running("operateOnLeft", "enter")
    /\ IF variant = "scientific" /\ ~isOperator(lexer.current)
       THEN /\ increments < MaxIncrements
            /\ increments' = increments + 1
            /\ lexer' = [LexerNext(expression, lexer) EXCEPT
                            !.error = IF @ # "" THEN @ ELSE UnexpectedOperator]
            /\ stack' = <<>>
            /\ parsePc' = "threw"
       ELSE Increment(lexer,
                Append([stack EXCEPT ![Len(stack)].at = "switch",
                                     ![Len(stack)].op = lexer.current],
                       Frame(IF RightLevel(variant, lexer.current) = "operand"
                             THEN "parseOperand" ELSE "parseTerm", "enter")))
    /\ UNCHANGED <<calculatorVars, fractionVars, evalVars, boundVars>>

\* left = std::make_unique<...>(left, right); the default of part_003's
\* switch throws.
OperateReturn ==
    /\ Running("operateOnLeft", "switch")
    /\ IF isOperator(Top.op) THEN Return ELSE Throw(UnexpectedOperator)
    /\ UNCHANGED <<calculatorVars, fractionVars, evalVars, boundVars>>

\* bool isNegative = false;  (parseOperand)
OperandEnter ==
    /\ Running("parseOperand", "enter")
    /\ stack' = [stack EXCEPT ![Len(stack)].at = "signs"]
    /\ UNCHANGED <<lexer, parsePc, increments>>
    /\ UNCHANGED <<calculatorVars, fractionVars, evalVars, boundVars>>

\* one iteration of while (true) { ... ++lex; } at '-' or '+'
SignStep ==
    /\ Running("parseOperand", "signs")
    /\ lexer.current \in {"+", "-"}
    /\ Increment(lexer, [stack EXCEPT ![Len(stack)].from = lexer.idx])
    /\ UNCHANGED <<calculatorVars, fractionVars, evalVars, boundVars>>

\* if (*lex == '(') { ++lex; auto node = parseExpression(lex);
OpenPar ==
    /\ Running("parseOperand", "signs")
    /\ lexer.current = "("
    /\ Increment(AtOperand(lexer),
                 Append([stack EXCEPT ![Len(stack)].at = "close"],
                        Frame("parseExpression", "enter")))
    /\ UNCHANGED <<calculatorVars, fractionVars, evalVars, boundVars>>

\* ++lex; return node;  (the parenthesised branch)
ClosePar ==
    /\ Running("parseOperand", "close")
    /\ Increment(lexer, Caller)
    /\ UNCHANGED <<calculatorVars, fractionVars, evalVars, boundVars>>

\* operand = 0; the sign loop has left at a token that is not '('
LiteralStart ==
    /\ Running("parseOperand", "signs")
    /\ lexer.current \notin {"+", "-", "("}
    /\ lexer' = AtOperand(lexer)
    /\ stack' = [stack EXCEPT ![Len(stack)].at = "digits",
                              ![Len(stack)].from = -1]
    /\ UNCHANGED <<parsePc, increments>>
    /\ UNCHANGED <<calculatorVars, fractionVars, evalVars, boundVars>>

\* one iteration of while ( isDigit(*lex) ); part_003 checks isBounded in it
DigitStep ==
    /\ Running("parseOperand", "digits")
    /\ isDigit(lexer.current)
    /\ LET next == IF variant = "scientific"
                   THEN Top.operand * 10 + DigitValue(lexer.current)
                   ELSE ull(ull(Top.operand * 10) + DigitValue(lexer.current))
       IN  IF variant = "fraction" /\ ~isBounded(next)
           THEN Throw(overflowErrorMessage)
           ELSE Increment(lexer, [stack EXCEPT ![Len(stack)].operand = next,
                                               ![Len(stack)].from = lexer.idx])
    /\ UNCHANGED <<calculatorVars, fractionVars, evalVars, boundVars>>

\* the end of the digit loop; calculator.cpp checks isBounded after it
LiteralEnd ==
    /\ Running("parseOperand", "digits")
    /\ ~isDigit(lexer.current)
    /\ IF variant = "scientific" /\ ~calc_isBounded(DFromInt(Top.operand))
       THEN Throw(calc_overflowErrorMessage)
       ELSE Return
    /\ UNCHANGED <<calculatorVars, fractionVars, evalVars, boundVars>>

ParseNext ==
    \/ ExpressionEnter
    \/ ExpressionIterate
    \/ ExpressionReturn
    \/ TermEnter
    \/ TermIterate
    \/ TermReturn
    \/ Operate
    \/ OperateReturn
    \/ OperandEnter
    \/ SignStep
    \/ OpenPar
    \/ ClosePar
    \/ LiteralStart
    \/ DigitStep
    \/ LiteralEnd

ParseSpec == ParseInit /\ [][ParseNext]_vars

\* The functions run to their end: no step is put off for ever.
ParseFairSpec == ParseSpec /\ WF_vars(ParseNext)

\* ------------------------------------------------- vocabulary of the claims
\* The call has ended.
Done == pc # "idle"

\* The call on e ends as the call of this state did (doubles compare by ==).
SameOutcome(r) ==
    /\ r.error = error
    /\ error = "" => DEq(r.answer, answer)

ValidChars == Digits \cup {"+", "-", "*", "/", "(", ")", " "}

IsDigitRun(s) == Len(s) > 0 /\ \A k \in 1..Len(s) : isDigit(s[k])

\* x is one operand: a literal or one parenthesised expression.
IsOperandText(x) ==
    \/ IsDigitRun(x)
    \/ /\ Len(x) >= 3
       /\ x[1] = "(" /\ x[Len(x)] = ")"
       /\ \A k \in 2..(Len(x) - 1) : x[k] \notin {"(", ")"}

\* s is an operand other than a literal zero.
IsNonZero(s) == ~IsDigitRun(s) \/ \E k \in 1..Len(s) : s[k] # "0"

\* e is "A op1 B op2 C" with operands A, B, C and its operators at i and j.
Triple(e, i, j) ==
    /\ i < j
    /\ isOperator(e[i]) /\ isOperator(e[j])
    /\ IsOperandText(SubSeq(e, 1, i - 1))
    /\ IsOperandText(SubSeq(e, i + 1, j - 1))
    /\ IsOperandText(SubSeq(e, j + 1, Len(e)))

\* "(A op1 B) op2 C"
GroupLeft(e, j) ==
    <<"(">> \o SubSeq(e, 1, j - 1) \o <<")">> \o SubSeq(e, j, Len(e))

\* "A op1 (B op2 C)"
GroupRight(e, i) ==
    SubSeq(e, 1, i) \o <<"(">> \o SubSeq(e, i + 1, Len(e)) \o <<")">>

\* The last character of e before position i that is not a space ("" if none).
RECURSIVE PrevToken(_, _)
PrevToken(e, i) ==
    IF i <= 1 THEN ""
    ELSE IF e[i - 1] # " " THEN e[i - 1]
    ELSE PrevToken(e, i - 1)

\* '(' minus ')' among the first k characters of e.
RECURSIVE OpenCount(_, _)
OpenCount(e, k) ==
    IF k = 0 THEN 0
    ELSE OpenCount(e, k - 1)
         + (IF e[k] = "(" THEN 1 ELSE IF e[k] = ")" THEN -1 ELSE 0)

\* An implicit multiplication stands between the adjacent characters a, b.
NeedsStar(a, b) ==
    \/ a = ")" /\ isDigit(b)
    \/ b = "(" /\ (isDigit(a) \/ a = ")")

HasImplicit(e) == \E k \in 1..(Len(e) - 1) : NeedsStar(e[k], e[k + 1])

\* e with '*' written at every implicit multiplication, from position k on.
RECURSIVE ExplicitFrom(_, _)
ExplicitFrom(e, k) ==
    IF k > Len(e) THEN <<>>
    ELSE IF k < Len(e) /\ NeedsStar(e[k], e[k + 1])
         THEN <<e[k], "*">> \o ExplicitFrom(e, k + 1)
    ELSE <<e[k]>> \o ExplicitFrom(e, k + 1)

Explicit(e) == ExplicitFrom(e, 1)

\* A '*' or '/' of e stands first, after '(' or after an operator.
BadStarSlash(e) ==
    \E k \in 1..Len(e) :
        /\ e[k] \in {"*", "/"}
        /\ PrevToken(e, k) \in {"", "(", "+", "-", "*", "/"}

\* A ')' of e closes nothing, follows '(' or follows an operator.
BadClosePar(e) ==
    \E k \in 1..Len(e) :
        /\ e[k] = ")"
        /\ \/ OpenCount(e, k - 1) <= 0
           \/ PrevToken(e, k) = "("
           \/ isOperator(PrevToken(e, k))

\* e ends with a '(' still open / with an operator as its last token.
Unclosed(e) == OpenCount(e, Len(e)) > 0

TrailingOperator(e) == isOperator(PrevToken(e, Len(e) + 1))

\* e from position k on, every run of signs before an operand replaced by
\* "-" when it holds an odd number of '-' and by nothing otherwise. last is
\* the token before the run, inRun and odd describe the run k stands in.
RECURSIVE SignCanonFrom(_, _, _, _, _)
SignCanonFrom(e, k, last, inRun, odd) ==
    IF k > Len(e) THEN IF inRun /\ odd THEN <<"-">> ELSE <<>>
    ELSE IF e[k] = " "
         THEN <<" ">> \o SignCanonFrom(e, k + 1, last, inRun, odd)
    ELSE IF e[k] \in {"+", "-"}
         THEN IF inRun
              THEN SignCanonFrom(e, k + 1, last, TRUE, odd # (e[k] = "-"))
              ELSE IF isDigit(last) \/ last = ")"
                   THEN <<e[k]>> \o SignCanonFrom(e, k + 1, e[k], TRUE, FALSE)
              ELSE SignCanonFrom(e, k + 1, last, TRUE, e[k] = "-")
    ELSE (IF inRun /\ odd THEN <<"-">> ELSE <<>>)
         \o <<e[k]>> \o SignCanonFrom(e, k + 1, e[k], FALSE, FALSE)

SignCanon(e) == SignCanonFrom(e, 1, "", FALSE, FALSE)

AllSpaces(e) == \A k \in 1..Len(e) : e[k] = " "

\* e without its character at k.
DropAt(e, k) == SubSeq(e, 1, k - 1) \o SubSeq(e, k + 1, Len(e))

\* The first character of e after position k that is not a space ("" if
\* none).
RECURSIVE NextToken(_, _)
NextToken(e, k) ==
    IF k >= Len(e) THEN ""
    ELSE IF e[k + 1] # " " THEN e[k + 1]
    ELSE NextToken(e, k + 1)

\* e[k] is a leading zero: a '0' that begins a literal and is not its end.
LeadingZeroAt(e, k) ==
    /\ e[k] = "0"
    /\ ~isDigit(PrevToken(e, k))
    /\ isDigit(NextToken(e, k))

\* The digit run s without its leading zeros.
RECURSIVE Significant(_)
Significant(s) ==
    IF Len(s) > 0 /\ s[1] = "0" THEN Significant(Tail(s)) ELSE s

\* The number the digit run s writes.
RECURSIVE NumberOf(_)
NumberOf(s) ==
    IF Len(s) = 0 THEN 0
    ELSE 10 * NumberOf(SubSeq(s, 1, Len(s) - 1)) + DigitValue(s[Len(s)])

\* The digits e begins with.
RECURSIVE LeadRun(_)
LeadRun(e) ==
    IF Len(e) > 0 /\ isDigit(e[1]) THEN <<e[1]>> \o LeadRun(Tail(e)) ELSE <<>>

\* The digit limit of the variant v.
DigitLimit(v) == IF v = "scientific" THEN calc_MAX_DIGITS ELSE MAX_DIGITS

\* e is "A op B" with operands A, B and its operator at i.
Pair(e, i) ==
    /\ isOperator(e[i])
    /\ IsOperandText(SubSeq(e, 1, i - 1))
    /\ IsOperandText(SubSeq(e, i + 1, Len(e)))

IsZeroResult(r) == r.error = "" /\ DIsZero(r.answer)

\* The text x alone evaluates to zero.
ZeroValued(v, x) == IsZeroResult(calculate(v, x))

DivisionByZero == "Division by zero detected"

\* The tree parse made of the expression of this state.
Tree == parse(variant, expression)

\* The call of this state was on the Fraction variant and reached evaluate().
Evaluated == Done /\ variant = "fraction" /\ ~Thrown(Tree.lex)

ReturnedBy(r) == IF r.error = "" THEN {r.val} ELSE {}

\* The Fractions that evaluate() of node and of the nodes below it returned.
RECURSIVE Returned(_)
Returned(node) ==
    CASE node.type = "Fraction" -> ReturnedBy(evaluateFraction(node))
      [] node.type = "Negation" ->
           Returned(node.operand) \cup ReturnedBy(evaluateFraction(node))
      [] OTHER ->
           Returned(node.left)
           \cup (IF evaluateFraction(node.left).error = ""
                 THEN Returned(node.right) ELSE {})
           \cup ReturnedBy(evaluateFraction(node))

\* No product of findCommons(this, other) leaves the range of ull_t, or the
\* call throws before it multiplies.
CommonsExact(this, other) ==
    LET k == this.denominator \div GCD(this.denominator, other.denominator)
        lcm == k * other.denominator
    IN  \/ ~isProductBounded(k, other.denominator)
        \/ /\ lcm < ULL_MODULUS
           /\ \/ ~isProductBounded(this.numerator, lcm \div this.denominator)
              \/ ~isProductBounded(other.numerator, lcm \div other.denominator)
              \/ /\ this.numerator * lcm < ULL_MODULUS
                 /\ other.numerator * lcm < ULL_MODULUS

\* No product of Product::evaluate leaves the range of ull_t, or it throws
\* before it multiplies.
ProductExact(l, r) ==
    LET gcd1 == GCD(l.numerator, r.denominator)
        gcd2 == GCD(l.denominator, r.numerator)
        ln == l.numerator \div gcd1
        ld == l.denominator \div gcd2
        rn == r.numerator \div gcd2
        rd == r.denominator \div gcd1
    IN  \/ ~isProductBounded(ln, rn) \/ ~isProductBounded(ld, rd)
        \/ ln * rn < ULL_MODULUS /\ ld * rd < ULL_MODULUS

\* The sum of the scaled numerators of findCommons(this, other) stays in the
\* range of ull_t, or the call throws.
SumExact(this, other) ==
    \/ findCommons(this, other).error # ""
    \/ findCommons(this, other).l_num_scaled
         + findCommons(this, other).r_num_scaled < ULL_MODULUS

\* evaluate() of a node of the given type computes exactly on l and r.
\* Addition of a negative l and a positive r calls findCommons on r; the sum
\* is computed by Addition on equal signs and, delegated, by Subtraction on
\* different signs.
OperationExact(type, l, r) ==
    CASE type = "Addition" ->
           IF l.isNegative /\ ~r.isNegative THEN CommonsExact(r, l)
           ELSE /\ CommonsExact(l, r)
                /\ l.isNegative = r.isNegative => SumExact(l, r)
      [] type = "Subtraction" ->
           /\ CommonsExact(l, r)
           /\ l.isNegative # r.isNegative => SumExact(l, r)
      [] type = "Product" -> ProductExact(l, r)
      [] type = "Quotient" ->
           \/ r.numerator = 0
           \/ ProductExact(l, Fraction(r.denominator, r.numerator, r.isNegative))

\* Every evaluate() of node and of the nodes below it computes exactly.
RECURSIVE NodeExact(_)
NodeExact(node) ==
    CASE node.type = "Fraction" -> TRUE
      [] node.type = "Negation" -> NodeExact(node.operand)
      [] OTHER ->
           /\ NodeExact(node.left)
           /\ evaluateFraction(node.left).error = "" =>
                /\ NodeExact(node.right)
                /\ evaluateFraction(node.right).error = "" =>
                     OperationExact(node.type, evaluateFraction(node.left).val,
                                    evaluateFraction(node.right).val)


\* ------------------------------------------------------------------ claims
\* C1: every accepted input with an implicit multiplication (a digit right
\* after ')', or '(' right after a digit or ')') has the value of the input
\* with '*' written at each such place; "2(3+4)" is 14 and "(2)3" is 6.
C1_ImplicitMultiplication ==
    /\ (Done /\ error = "" /\ HasImplicit(expression))
           => SameOutcome(calculate(variant, Explicit(expression)))
    /\ (Done /\ expression = <<"2", "(", "3", "+", "4", ")">>)
           => error = "" /\ answer = DFromInt(14)
    /\ (Done /\ expression = <<"(", "2", ")", "3">>)
           => error = "" /\ answer = DFromInt(6)

\* C2: in the Fraction parser "a/b/c" is (a/b)/c and "a/b*c" is (a/b)*c, for
\* all operands a, b, c with non-zero divisors.
C2_TermLeftAssociative ==
    (Done /\ variant = "fraction") =>
        \A i, j \in 1..Len(expression) :
            ( /\ Triple(expression, i, j)
              /\ expression[i] = "/" /\ expression[j] \in {"*", "/"}
              /\ IsNonZero(SubSeq(expression, i + 1, j - 1))
              /\ IsNonZero(SubSeq(expression, j + 1, Len(expression))) )
                => SameOutcome(calculate(variant, GroupLeft(expression, j)))

\* C3: '*' and '/' bind tighter than '+' and '-': "a-b*c" is a-(b*c) and
\* "a*b+c" is (a*b)+c for all operands a, b, c; "4-3*5" is -11.
C3_Precedence ==
    Done =>
        /\ \A i, j \in 1..Len(expression) :
               ( /\ Triple(expression, i, j)
                 /\ expression[i] \in {"+", "-"}
                 /\ expression[j] \in {"*", "/"} )
                   => SameOutcome(calculate(variant, GroupRight(expression, i)))
        /\ \A i, j \in 1..Len(expression) :
               ( /\ Triple(expression, i, j)
                 /\ expression[i] \in {"*", "/"}
                 /\ expression[j] \in {"+", "-"} )
                   => SameOutcome(calculate(variant, GroupLeft(expression, j)))
        /\ expression = <<"4", "-", "3", "*", "5">>
               => error = "" /\ answer = DFromInt(-11)

C3_Witness ==
    /\ pc = "returned"
    /\ expression = <<"4", "-", "3", "*", "5">>
    /\ answer = DFromInt(-11)

\* C4: '+' and '-' are left-associative: "a-b-c" is (a-b)-c and "a-b+c" is
\* (a-b)+c for all operands a, b, c; "10-3-2" is 5.
C4_ExpressionLeftAssociative ==
    Done =>
        /\ \A i, j \in 1..Len(expression) :
               ( /\ Triple(expression, i, j)
                 /\ expression[i] \in {"+", "-"}
                 /\ expression[j] \in {"+", "-"} )
                   => SameOutcome(calculate(variant, GroupLeft(expression, j)))
        /\ expression = <<"1", "0", "-", "3", "-", "2">>
               => error = "" /\ answer = DFromInt(5)

C4_Witness ==
    /\ pc = "returned"
    /\ expression = <<"1", "0", "-", "3", "-", "2">>
    /\ answer = DFromInt(5)

\* C5: a run of '+' and '-' before an operand negates the operand exactly
\* when it holds an odd number of '-': an accepted input has the value of
\* the input with every run reduced to its parity, a single '-' before an
\* operand negates it, and "-----5" is -5, "5--------3" is 8, "3---5" is -2,
\* "3*-5" is -15.
C5_SignChain ==
    (Done /\ error = "") =>
        /\ SameOutcome(calculate(variant, SignCanon(expression)))
        /\ ( /\ Len(expression) > 1
             /\ expression[1] = "-"
             /\ IsOperandText(Tail(expression)) )
               => DEq(calculate(variant, Tail(expression)).answer, DNeg(answer))
        /\ expression = <<"-", "-", "-", "-", "-", "5">>
               => answer = DFromInt(-5)
        /\ expression = <<"5", "-", "-", "-", "-", "-", "-", "-", "-", "3">>
               => answer = DFromInt(8)
        /\ expression = <<"3", "-", "-", "-", "5">> => answer = DFromInt(-2)
        /\ expression = <<"3", "*", "-", "5">> => answer = DFromInt(-15)

C5_Witness ==
    /\ pc = "returned"
    /\ expression = <<"5", "-", "-", "-", "-", "-", "-", "-", "-", "3">>
    /\ answer = DFromInt(8)

\* C6: an input that holds, anywhere, a character outside the digits,
\* '+', '-', '*', '/', '(', ')' and the space never returns a result.
C6_InvalidCharacterRejected ==
    (Done /\ \E k \in 1..Len(expression) : expression[k] \notin ValidChars)
        => pc = "threw"

\* C7: an input with a '*' or '/' that stands first, right after '(' or
\* right after an operator (spaces ignored) is rejected.
C7_StarSlashRejected ==
    (Done /\ BadStarSlash(expression)) => pc = "threw"

\* C8: an input with a ')' that closes nothing, that follows '(' or that
\* follows an operator (spaces ignored) is rejected.
C8_CloseParRejected ==
    (Done /\ BadClosePar(expression)) => pc = "threw"

\* C9: an input that ends with a '(' still open or with an operator as its
\* last token is rejected, and with both and nothing else wrong the error
\* is the unmatched parenthesis.
C9_EndOfInputRejected ==
    Done =>
        /\ Unclosed(expression) => pc = "threw"
        /\ TrailingOperator(expression) => pc = "threw"
        /\ ( /\ Unclosed(expression) /\ TrailingOperator(expression)
             /\ ~BadStarSlash(expression) /\ ~BadClosePar(expression)
             /\ \A k \in 1..Len(expression) : expression[k] \in ValidChars
             /\ error # overflowErrorMessage )
               => error = "Unmatched open parenthesis found"

\* C10: the inputs rejected as an empty expression are exactly the empty
\* input and the inputs of spaces only.
C10_EmptyExpression ==
    Done => (error = "Expression is empty" <=> AllSpaces(expression))

C10_Witness ==
    /\ pc = "threw"
    /\ expression = <<" ", " ">>
    /\ error = "Expression is empty"


\* The text x alone evaluates to a value.
Evaluates(v, x) == calculate(v, x).error = ""

\* C11: a division whose right operand evaluates to zero fails with the
\* division-by-zero error and returns no value, and a division whose right
\* operand is not zero never raises that error: in "A/B" the error is raised
\* exactly when B is zero, in "A/B*C" it is not raised when B is not zero, and
\* in "A/B/C" it is not raised when neither B nor C is zero; "5/0" and
\* "20/(10-10)" raise it.
C11_DivisionByZero ==
    Done =>
        /\ \A i \in 1..Len(expression) :
               ( /\ Pair(expression, i) /\ expression[i] = "/"
                 /\ Evaluates(variant, SubSeq(expression, 1, i - 1))
                 /\ Evaluates(variant, SubSeq(expression, i + 1, Len(expression))) )
                   => ( error = DivisionByZero
                          <=> ZeroValued(variant, SubSeq(expression, i + 1, Len(expression))) )
        /\ \A i, j \in 1..Len(expression) :
               ( /\ Triple(expression, i, j)
                 /\ expression[i] = "/" /\ expression[j] \in {"*", "/"}
                 /\ Evaluates(variant, SubSeq(expression, 1, i - 1))
                 /\ Evaluates(variant, SubSeq(expression, i + 1, j - 1))
                 /\ Evaluates(variant, SubSeq(expression, j + 1, Len(expression)))
                 /\ ~ZeroValued(variant, SubSeq(expression, i + 1, j - 1))
                 /\ expression[j] = "/" =>
                        ~ZeroValued(variant, SubSeq(expression, j + 1, Len(expression))) )
                   => error # DivisionByZero
        /\ expression \in {<<"5", "/", "0">>,
                           <<"2", "0", "/", "(", "1", "0", "-", "1", "0", ")">>}
               => error = DivisionByZero

\* C12: lastExpression and lastAnswer are "0" and 0 before the first call;
\* a call that returns sets them to its input text and its result, and a call
\* that throws leaves both as they were.
C12_LastFieldsFrame ==
    /\ lastExpression = <<"0">> /\ lastAnswer = DZero
    /\ [][ /\ pc' = "returned" =>
                (lastExpression' = expression' /\ lastAnswer' = answer')
           /\ pc' = "threw" => UNCHANGED <<lastExpression, lastAnswer>>
           /\ pc' \in {"returned", "threw"} ]_calculatorVars

\* A call that throws after one that returned.
C12_Witness ==
    /\ calls = 2
    /\ pc = "threw"
    /\ expression = <<"5", "/", "0">>
    /\ lastExpression = <<"2">>
    /\ lastAnswer = DFromInt(2)

\* The Fraction variant was called on a text that begins with a literal.
LiteralFirst == Done /\ variant = "fraction" /\ LeadRun(expression) # <<>>

Zeros(n) == [k \in 1..n |-> "0"]

\* C14: leading zeros do not count toward the digit limit and do not change
\* a literal's value: a text that is one literal with at most DigitLimit
\* digits after its leading zeros is accepted with the value of those digits,
\* removing a leading zero of a literal anywhere in a text changes neither the
\* outcome nor the value, and "00000000000000000000000320+1" is 321 (with
\* MAX_DIGITS = 3 the Fraction variant has room for the sum of "...032+1").
C14_LeadingZeros ==
    Done =>
        /\ ( /\ IsDigitRun(expression)
             /\ Len(Significant(expression)) <= DigitLimit(variant) )
               => /\ error = ""
                  /\ answer = DFromInt(NumberOf(Significant(expression)))
        /\ \A k \in 1..Len(expression) :
               LeadingZeroAt(expression, k)
                   => SameOutcome(calculate(variant, DropAt(expression, k)))
        /\ ( /\ variant = "scientific"
             /\ expression = Zeros(23) \o <<"3", "2", "0", "+", "1">> )
               => error = "" /\ answer = DFromInt(321)
        /\ expression = Zeros(23) \o <<"3", "2", "+", "1">>
               => error = "" /\ answer = DFromInt(33)

\* C15: spaces are ignored everywhere: removing a space of the text at any
\* position (in front, at the end, between tokens, inside a literal) changes
\* neither whether the call returns, nor the error, nor the value; "1 2" is
\* 12 and "3 + * 4" is rejected with the error of "3+*4".
C15_SpacesIgnored ==
    Done =>
        /\ \A k \in 1..Len(expression) :
               expression[k] = " "
                   => SameOutcome(calculate(variant, DropAt(expression, k)))
        /\ expression = <<"1", " ", "2">>
               => error = "" /\ answer = DFromInt(12)
        /\ expression = <<"3", " ", "+", " ", "*", " ", "4">>
               => /\ error # ""
                  /\ error = calculate(variant, <<"3", "+", "*", "4">>).error

\* A space between the digits of one literal.
C15_Witness ==
    /\ Done
    /\ expression = <<"1", " ", "2">>
    /\ error = ""
    /\ answer = DFromInt(12)

\* C16: in the Fraction variant every Fraction returned by evaluate() of a
\* node of a parsed expression (literal, Negation, Addition, Subtraction,
\* Product, Quotient) has gcd(numerator, denominator) = 1.
C16_ReducedValues ==
    Evaluated =>
        \A f \in Returned(Tree.node) : GCD(f.numerator, f.denominator) = 1

\* A sum whose common denominator is not its reduced one: 9/50 + 1/50 is
\* 10/50 before reduce() and is returned as 1/5.
C16_Witness ==
    /\ Evaluated
    /\ expression = <<"9", "/", "5", "0", "+", "1", "/", "5", "0">>
    /\ Fraction(9, 50, FALSE) \in Returned(Tree.node)
    /\ Fraction(1, 5, FALSE) \in Returned(Tree.node)
    /\ error = ""

\* C17: in the Fraction variant every Fraction of value zero returned by
\* evaluate() of a node is exactly numerator 0, denominator 1, isNegative
\* false; "-0", "-(1-1)", "0*-5" and "0/-5" return a zero that is not
\* negative.
C17_CanonicalZero ==
    Evaluated =>
        \A f \in Returned(Tree.node) :
            f.numerator = 0 => f = Fraction(0, 1, FALSE)

\* C18: in the Fraction variant every Fraction returned by evaluate() of a
\* node has a numerator and a denominator of at most MAX_DIGITS digits
\* (<= MAX_NUM); Subtraction, which does not check its result, returns none
\* above the ceiling.
C18_PrecisionCeiling ==
    Evaluated =>
        \A f \in Returned(Tree.node) :
            isBounded(f.numerator) /\ isBounded(f.denominator)

\* A Subtraction that returned a Fraction whose denominator has MAX_DIGITS
\* digits.
C18_Witness ==
    /\ Evaluated
    /\ error = ""
    /\ Tree.node.type = "Subtraction"
    /\ evaluateFraction(Tree.node).val.denominator >= Pow10(MAX_DIGITS - 1)

\* The exact value of a/b + c/d or a/b - c/d where the Fraction variant
\* returned one for the text "a/b+c/d" or "a/b-c/d": the property holds of
\* the returned double.
ExactSum(a, b, c, d, minus) ==
    LET num == IF minus THEN a * d - c * b ELSE a * d + c * b
    IN  answer = DMake(Abs(num), b * d, num < 0)

\* C19: in the Fraction variant no unsigned value computed while a literal is
\* accumulated, in findCommons (k * r_den, l_num * lcm, r_num * lcm), in
\* Addition (the sum of the scaled numerators) and in Product (both products)
\* leaves the range of ull_t: an operation that would is rejected with the
\* overflow error before it multiplies, so a returned value is exact;
\* "99/50+1/9" returns 941/450 or the overflow error.
C19_NoSilentOverflow ==
    Evaluated =>
        /\ 10 * MAX_NUM + 9 < ULL_MODULUS
        /\ NodeExact(Tree.node)
        /\ expression = <<"9", "9", "/", "5", "0", "+", "1", "/", "9">>
               => \/ error = overflowErrorMessage
                  \/ error = "" /\ ExactSum(99, 50, 1, 9, FALSE)

\* C20: reduce() is idempotent: on every Fraction with denominator > 0 the
\* second and the third call leave numerator, denominator and isNegative as
\* the first call left them, and a call on a Fraction with
\* gcd(numerator, denominator) = 1 and numerator # 0 changes nothing.
C20_ReduceIdempotent ==
    /\ given.denominator > 0
    /\ reduceCalls >= 1 => object = reduce(given)
    /\ ( /\ reduceCalls >= 1
         /\ GCD(given.numerator, given.denominator) = 1
         /\ given.numerator # 0 )
           => object = given

\* -2/4 after two calls of reduce(): -1/2, as after the first.
C20_Witness ==
    /\ given = Fraction(2, 4, TRUE)
    /\ reduceCalls = 2
    /\ object = Fraction(1, 2, TRUE)

\* ------------------------------------------- the pre-pass lex of part_005
\* The state of the loop of Calculator::lex: the tokens written so far, the
\* open parentheses, the digits of the current literal, and the message of
\* the exception thrown ("" if none).
LexStart == [tokens |-> <<>>, numOpenPars |-> 0, currentDigits |-> 1, error |-> ""]

LastToken(tokens) == IF tokens = <<>> THEN " " ELSE tokens[Len(tokens)]

\* The body of the loop of Calculator::lex on the character c.
LexChar(st, c) ==
    LET last == LastToken(st.tokens) IN
    CASE isDigit(c) ->
           IF isDigit(last)
           THEN IF st.currentDigits + 1 > MAX_DIGITS
                THEN [st EXCEPT !.currentDigits = @ + 1,
                                !.error = overflowErrorMessage]
                ELSE [st EXCEPT !.currentDigits = @ + 1,
                                !.tokens = @ \o <<c>>]
           ELSE IF last = ")"
                THEN [st EXCEPT !.currentDigits = 1, !.tokens = @ \o <<"*", c>>]
                ELSE [st EXCEPT !.currentDigits = 1, !.tokens = @ \o <<c>>]
      [] c \in {"+", "-"} -> [st EXCEPT !.tokens = @ \o <<c>>]
      [] c \in {"*", "/"} ->
           IF st.tokens = <<>> \/ last = "("
           THEN [st EXCEPT !.error = "Invalid unary * or / found"]
           ELSE IF isOperator(last)
           THEN [st EXCEPT !.error = "Invalid adjacent operators found"]
           ELSE [st EXCEPT !.tokens = @ \o <<c>>]
      [] c = "(" ->
           IF last = ")" \/ isDigit(last)
           THEN [st EXCEPT !.numOpenPars = @ + 1, !.tokens = @ \o <<"*", c>>]
           ELSE [st EXCEPT !.numOpenPars = @ + 1, !.tokens = @ \o <<c>>]
      [] c = ")" ->
           IF st.numOpenPars = 0
           THEN [st EXCEPT !.error = "Closed parenthesis with no open match found"]
           ELSE IF isOperator(last)
           THEN [st EXCEPT !.error = "Leading operator found"]
           ELSE IF last = "("
           THEN [st EXCEPT !.error = "Empty parentheses found"]
           ELSE [st EXCEPT !.numOpenPars = @ - 1, !.tokens = @ \o <<c>>]
      [] c = " " -> st
      [] OTHER -> [st EXCEPT !.error = "Invalid character found"]

\* for (const char& c : exp) from the k-th character on.
RECURSIVE LexLoop(_, _, _)
LexLoop(exp, k, st) ==
    IF st.error # "" \/ k > Len(exp) THEN st
    ELSE LexLoop(exp, k + 1, LexChar(st, exp[k]))

\* The checks of Calculator::lex after its loop, and the terminating ')'.
LexEnd(st) ==
    IF st.error # "" THEN st
    ELSE IF st.tokens = <<>> THEN [st EXCEPT !.error = "Expression is empty"]
    ELSE IF st.numOpenPars # 0
    THEN [st EXCEPT !.error = "Unmatched open parenthesis found"]
    ELSE IF isOperator(LastToken(st.tokens))
    THEN [st EXCEPT !.error = "Leading operator found"]
    ELSE [st EXCEPT !.tokens = @ \o <<")">>]

\* Calculator::lex of part_005: [tokens, error]
Calculator_lex(exp) == LexEnd(LexLoop(exp, 1, LexStart))

\* --------------------------------------- the stream of the Lexer object
\* The token t in front of the stream r.
StreamCons(t, r) ==
    IF r.error # "" THEN r ELSE [tokens |-> <<t>> \o r.tokens, error |-> ""]

\* The values of *lex from the Lexer l on, through each ++lex, up to the
\* end-of-input sentinel: [tokens, error].
RECURSIVE StreamFrom(_, _)
StreamFrom(e, l) ==
    IF Thrown(l) THEN [tokens |-> <<>>, error |-> l.error]
    ELSE IF l.idx >= Len(e) THEN [tokens |-> <<l.current>>, error |-> ""]
    ELSE StreamCons(l.current, StreamFrom(e, LexerNext(e, l)))

\* The stream of a Lexer constructed on e.
TokenStream(e) == StreamFrom(e, Lexer(e))

\* C21: for every input that neither lexer rejects, the tokens the Lexer
\* object presents from its construction through each ++lex up to the
\* end-of-input sentinel are the string Calculator::lex of part_005 returns:
\* the non-space characters in order, '*' before each digit that follows ')'
\* and before each '(' that follows a digit or ')', and a terminating ')'.
C21_TokenStreamEquivalence ==
    ( /\ Done
      /\ TokenStream(expression).error = ""
      /\ Calculator_lex(expression).error = "" )
        => TokenStream(expression).tokens = Calculator_lex(expression).tokens

\* C22: on every input the Lexer does not reject, each call of parseOperand
\* stands at a digit or at '(' after its sign run, so no literal is built
\* from an empty digit run, and the 'Unexpected operator' branch of
\* operateOnLeft is never reached.
C22_ParserMeetsExpectedTokens ==
    Done =>
        /\ ~Thrown(Tree.lex) => Tree.lex.operandAt \subseteq Digits \cup {"("}
        /\ error # UnexpectedOperator

\* C23: whenever parse returns a tree without throwing, the Lexer is at the
\* end of the input (idx >= length, no parenthesis open) and the token at
\* which the top-level parseExpression stopped is the end-of-input ')', so
\* no suffix of the input is left out of the result.
C23_WholeInputConsumed ==
    (Done /\ ~Thrown(Tree.lex)) =>
        /\ Tree.lex.idx >= Len(expression)
        /\ Tree.lex.numOpenPars = 0
        /\ Tree.lex.current = ")"

\* ------------------------------------------------- Fractions as rationals
\* The numerator of f with its sign.
Signed(f) == IF f.isNegative THEN -f.numerator ELSE f.numerator

\* The rational num/den, den > 0, in lowest terms.
RationalOf(num, den) ==
    [n |-> Abs(num) \div GCD(Abs(num), den), d |-> den \div GCD(Abs(num), den),
     neg |-> num < 0]

\* The Fraction f read as a signed rational.
AsRational(f) == RationalOf(Signed(f), f.denominator)

\* l + r and l - r
RationalSum(l, r) ==
    RationalOf(Signed(l) * r.denominator + Signed(r) * l.denominator,
               l.denominator * r.denominator)

RationalDifference(l, r) ==
    RationalOf(Signed(l) * r.denominator - Signed(r) * l.denominator,
               l.denominator * r.denominator)

\* evaluate() of the node asked for has returned a Fraction.
Returns(types) == evalPc = "returned" /\ asked.type \in types

\* C24: whenever Addition::evaluate or Subtraction::evaluate returns, in
\* each of the four sign combinations of its operands l and r, the returned
\* Fraction read as a signed rational is l + r or l - r; a Subtraction of
\* same-signed operands whose difference is not zero returns the sign of l
\* flipped exactly when r's scaled numerator exceeds l's.
C24_SignedSumExact ==
    /\ Returns({"Addition"})
           => AsRational(result.val) = RationalSum(asked.left, asked.right)
    /\ Returns({"Subtraction"})
           => AsRational(result.val) = RationalDifference(asked.left, asked.right)
    /\ ( /\ Returns({"Subtraction"})
         /\ asked.left.isNegative = asked.right.isNegative
         /\ result.val.numerator # 0 )
           => ( result.val.isNegative # asked.left.isNegative
                  <=> asked.right.numerator * asked.left.denominator
                        > asked.left.numerator * asked.right.denominator )

\* |l * r| and |l / r| (r # 0) in lowest terms
ProductMagnitude(l, r) ==
    RationalOf(l.numerator * r.numerator, l.denominator * r.denominator)

QuotientMagnitude(l, r) ==
    RationalOf(l.numerator * r.denominator, l.denominator * r.numerator)

\* |f| in lowest terms
Magnitude(f) == RationalOf(f.numerator, f.denominator)

\* C25: whenever Product::evaluate returns, its result is l * r with
\* isNegative = l.isNegative XOR r.isNegative; whenever Quotient::evaluate
\* returns, its result is l times the reciprocal of r (numerator and
\* denominator of r swapped, sign of r kept), that is l / r.
C25_ProductQuotientExact ==
    /\ Returns({"Product"})
           => /\ Magnitude(result.val) = ProductMagnitude(asked.left, asked.right)
              /\ result.val.isNegative
                   = (asked.left.isNegative # asked.right.isNegative)
    /\ Returns({"Quotient"})
           => /\ asked.right.numerator # 0
              /\ Magnitude(result.val) = QuotientMagnitude(asked.left, asked.right)
              /\ result.val.isNegative
                   = (asked.left.isNegative # asked.right.isNegative)

\* -99/50 * 50/9 has returned -11/1.
C25_Witness ==
    /\ Returns({"Product"})
    /\ asked.left = Fraction(99, 50, TRUE)
    /\ asked.right = Fraction(50, 9, FALSE)
    /\ result.val = Fraction(11, 1, TRUE)

\* C26: in the Fraction variant every Fraction created by the parser or
\* returned by evaluate() of a node has denominator > 0; Quotient::evaluate
\* swaps numerator and denominator only of a right operand whose numerator
\* is not zero.
C26_DenominatorPositive ==
    Evaluated => \A f \in Returned(Tree.node) : f.denominator > 0

\* 2/3 has been evaluated: the Quotient swapped 3/1 and returned 2/3.
C26_Witness ==
    /\ Evaluated
    /\ expression = <<"2", "/", "3">>
    /\ Tree.node.type = "Quotient"
    /\ Fraction(2, 3, FALSE) \in Returned(Tree.node)

\* C27: Addition and Subtraction hand over to each other at most once per
\* evaluation: the node that is handed the operands receives them with equal
\* signs, takes the arithmetic path and never hands them back, and every
\* evaluate() of these nodes ends by returning or throwing.
C27_DelegatesAtMostOnce ==
    /\ [](delegations <= 1)
    /\ [](delegations = 1 => ~Delegates(frame))
    /\ <>(evalPc \in {"returned", "threw"})

\* An Addition of operands of different signs has returned through one
\* Subtraction.
C27_Witness ==
    /\ asked.type = "Addition"
    /\ asked.left.isNegative /\ ~asked.right.isNegative
    /\ frame.type = "Subtraction"
    /\ delegations = 1
    /\ evalPc = "returned"

\* The number of decimal digits of x > 0.
DecimalDigits(x) == CHOOSE k \in 1..10 : Pow10(k - 1) <= x /\ x < Pow10(k)

\* C28: isProductBounded(a, b) = true implies that a * b has at most
\* MAX_DIGITS digits (a * b <= MAX_NUM); for a and b not zero it is true
\* exactly when digits(a) + digits(b) <= MAX_DIGITS, and it is true whenever
\* a or b is 0.
C28_ProductBoundSound ==
    called =>
        /\ productBounded => copy1 * copy2 <= MAX_NUM
        /\ (copy1 # 0 /\ copy2 # 0)
               => ( productBounded
                      <=> DecimalDigits(copy1) + DecimalDigits(copy2) <= MAX_DIGITS )
        /\ (copy1 = 0 \/ copy2 = 0) => productBounded

\* 99 * 9 = 891 was admitted: three digits in all.
C28_Witness ==
    /\ called
    /\ copy1 = 99
    /\ copy2 = 9
    /\ productBounded

\* parse has returned or thrown.
ParseEnded == parsePc \in {"returned", "threw"}

\* The function on top of the stack stands at the test of one of its loops.
AtLoopTest ==
    /\ parsePc = "parsing"
    /\ stack # <<>>
    /\ Top.at \in {"loop", "signs", "digits"}

\* C29: parse ends on every input, returning or throwing; every ++lex moves
\* the Lexer's position forward; when a loop of parseExpression, parseTerm
\* or parseOperand is tested again, the position is past the one at which its
\* last iteration began; once the position is at the end of the input the
\* current token is ')'; and the call stack holds at most three frames for
\* each character of the input.
C29_CalculateTerminates ==
    /\ <>ParseEnded
    /\ [][increments' = increments + 1 => lexer'.idx > lexer.idx]_vars
    /\ [](AtLoopTest => lexer.idx > Top.from)
    /\ []((parsePc = "parsing" /\ lexer.idx >= Len(expression))
              => lexer.current = ")")
    /\ [](increments <= Len(expression))
    /\ [](Len(stack) <= 3 * Len(expression))

\* "-(2)" has been parsed to its end with four calls of ++lex.
C29_Witness ==
    /\ expression = <<"-", "(", "2", ")">>
    /\ parsePc = "returned"
    /\ increments = 4
    /\ lexer.idx = 4
    /\ lexer.current = ")"

\* l + r, l - r or l * r of Fractions l and r of denominator 1.
IntegerResult(type, l, r) ==
    CASE type = "Addition"    -> Signed(l) + Signed(r)
      [] type = "Subtraction" -> Signed(l) - Signed(r)
      [] type = "Product"     -> Signed(l) * Signed(r)

\* evaluate() of the node asked for has thrown the overflow error.
RaisesOverflow == evalPc = "threw" /\ result.error = overflowErrorMessage

\* C30: for integers a and b (denominator 1) of at most MAX_DIGITS digits,
\* b not zero, Addition, Subtraction and Product raise the overflow error
\* only if the exact a + b, a - b or a * b has more than MAX_DIGITS digits.
C30_OverflowOnlyBeyondCeiling ==
    ( /\ RaisesOverflow
      /\ asked.type \in {"Addition", "Subtraction", "Product"}
      /\ asked.left.denominator = 1
      /\ asked.right.denominator = 1
      /\ asked.left.numerator <= MAX_NUM
      /\ asked.right.numerator <= MAX_NUM
      /\ asked.right.numerator # 0 )
        => Abs(IntegerResult(asked.type, asked.left, asked.right)) > MAX_NUM

============================================================================
